---- MODULE Spec2Model ----
(***************************************************************************)
(* Model of code_generation_helpers.py: the indentation-tracked line       *)
(* buffer, the execution-domain constructs built on it, the multi-way      *)
(* selector generator and the staged-copy generators.                      *)
(*                                                                         *)
(* self.code_str is kept as the sequence of the strings appended to it,    *)
(* one entry per gen_add_code_line call (each entry ends in "\n").         *)
(***************************************************************************)
EXTENDS Integers, Sequences, FiniteSets, TLC

VARIABLES
    code_str,       \* self.code_str, as the sequence of appended lines
    indent_level,   \* self.indent_level
    console,        \* what print() has written so far
    exc,            \* "none", or the name of the exception that ended the session
    last,           \* history: the last call made and the state it was made in
    opens,          \* history: depth before each opener that is not yet closed
    ncalls,         \* number of calls made so far
    sel,            \* selector runs: the selection specification and its outputs
    run             \* parallel-loop runs: the participants executing one header

vars == <<code_str, indent_level, console, exc, last, opens, ncalls, sel, run>>

emitVars == <<code_str, indent_level, console, exc, last, opens, ncalls>>

(***************************************************************************)
(* Bounds                                                                  *)
(***************************************************************************)
MaxCalls == 4

MaxCopyCalls == 2

MaxN == 3       \* thresholds per selection specification

MaxThr == 2     \* distinct threshold values 6, 12, ...

MaxDst == 2     \* destination tuples per selection specification

MaxDim == 2     \* extent of the execution domain in x and in y

MaxTrip == 5    \* trip count of a parallel loop

(***************************************************************************)
(* The emission state as one value, so that a handler that calls other     *)
(* handlers is the composition of their effects.                           *)
(***************************************************************************)
Self == [code_str |-> code_str, indent_level |-> indent_level,
         console |-> console, exc |-> exc]

\* Python's  n * "    "  : the empty string when n <= 0
\* variant: the magnitude of n decides the prefix
RECURSIVE Indent_abs(_)
Indent_abs(n) ==
    IF n = 0 THEN "" ELSE "    " \o Indent_abs(IF n < 0 THEN -n - 1 ELSE n - 1)

RECURSIVE Indent(_)
Indent(n) == IF n <= 0 THEN "" ELSE "    " \o Indent(n - 1)

gen_add_code_line(self, new_code_line, add_indent_after) ==
    [self EXCEPT
        !.code_str = Append(@, Indent(self.indent_level) \o new_code_line \o "\n"),
        !.indent_level = IF add_indent_after THEN @ + 1 ELSE @]

RECURSIVE gen_add_code_lines_loop(_, _)
gen_add_code_lines_loop(self, new_code_lines) ==
    IF new_code_lines = <<>> THEN self
    ELSE gen_add_code_lines_loop(
            gen_add_code_line(self, Head(new_code_lines), FALSE),
            Tail(new_code_lines))

\* variant: one indent level per header line
gen_add_code_lines_perline(self, new_code_lines, add_indent_after) ==
    LET s == gen_add_code_lines_loop(self, new_code_lines)
    IN  [s EXCEPT !.indent_level =
            IF add_indent_after THEN @ + Len(new_code_lines) ELSE @]

gen_add_code_lines(self, new_code_lines, add_indent_after) ==
    LET s == gen_add_code_lines_loop(self, new_code_lines)
    IN  [s EXCEPT !.indent_level = IF add_indent_after THEN @ + 1 ELSE @]

gen_add_end_control_flow(self) ==
    gen_add_code_line([self EXCEPT !.indent_level = @ - 1], "}", FALSE)

gen_add_end_function(self) ==
    gen_add_code_line([self EXCEPT !.indent_level = @ - 1], "}\n", FALSE)

gen_add_serial_ops(self, use_thread_group) ==
    IF use_thread_group
    THEN gen_add_code_line(self, "if(tgrp.thread_rank() == 0){", TRUE)
    ELSE gen_add_code_line(self, "if(threadIdx.x == 0 && threadIdx.y == 0){", TRUE)

\* the three parts of the for-header that depend on the mode
LoopStart(use_thread_group, block_level) ==
    IF block_level THEN "blockIdx.x + blockIdx.y*gridDim.x"
    ELSE IF use_thread_group THEN "tgrp.thread_rank()"
    ELSE "threadIdx.x + threadIdx.y*blockDim.x"

\* variant: the stride is the x extent of the domain only
LoopStride_x(use_thread_group, block_level) ==
    IF block_level THEN "gridDim.x"
    ELSE IF use_thread_group THEN "tgrp.size()"
    ELSE "blockDim.x"

LoopStride(use_thread_group, block_level) ==
    IF block_level THEN "gridDim.x*gridDim.y"
    ELSE IF use_thread_group THEN "tgrp.size()"
    ELSE "blockDim.x*blockDim.y"

LoopHeader(var_name, max_val, use_thread_group, block_level) ==
    "for(int " \o var_name \o " = " \o LoopStart(use_thread_group, block_level)
        \o "; " \o var_name \o " < " \o max_val \o "; " \o var_name \o " += "
        \o LoopStride(use_thread_group, block_level) \o "){"

\* block_level with use_thread_group prints, leaves `code` unbound, and the
\* read of `code` on line 107 raises UnboundLocalError before anything is
\* appended.
gen_add_parallel_loop(self, var_name, max_val, use_thread_group, block_level) ==
    IF block_level /\ use_thread_group
    THEN [self EXCEPT
            !.console = Append(@,
                "![ERROR]: BLOCK LEVEL THREAD GROUP LOOP NOT IMPLEMENTED YET"),
            !.exc = "UnboundLocalError"]
    ELSE gen_add_code_line(self,
            LoopHeader(var_name, max_val, use_thread_group, block_level), TRUE)

\* variant: the block-scoped barrier in either mode
gen_add_sync_block_only(self, use_thread_group) ==
    gen_add_code_line(self, "__syncthreads();", FALSE)

gen_add_sync(self, use_thread_group) ==
    IF use_thread_group
    THEN gen_add_code_line(self, "tgrp.sync();", FALSE)
    ELSE gen_add_code_line(self, "__syncthreads();", FALSE)

(***************************************************************************)
(* Staged copies.  Python's None is the string NoneVal, which is no        *)
(* buffer name.                                                            *)
(***************************************************************************)
NoneVal == "<None>"

\* one "base pointer, loop, copy, close" group of gen_kernel_load_inputs
LoadGroup(self, name, stride, amount, use_thread_group) ==
    LET s1 == gen_add_code_line(self,
                "const T *d_" \o name \o "_k = &d_" \o name \o "[k*" \o stride \o "];",
                FALSE)
        s2 == gen_add_parallel_loop(s1, "ind", amount, use_thread_group, FALSE)
        s3 == gen_add_code_line(s2,
                "s_" \o name \o "[ind] = d_" \o name \o "_k[ind];", FALSE)
    IN  gen_add_end_control_flow(s3)

gen_kernel_load_inputs(self, name, stride, amount, use_thread_group, name2, stride2, amount2, name3, stride3, amount3) ==
    LET s0 == gen_add_code_line(self, "// load to shared mem", FALSE)
        s1 == LoadGroup(s0, name, stride, amount, use_thread_group)
        s2 == IF name2 # NoneVal
              THEN LoadGroup(s1, name2, stride2, amount2, use_thread_group)
              ELSE s1
        s3 == IF name3 # NoneVal
              THEN LoadGroup(s2, name3, stride3, amount3, use_thread_group)
              ELSE s2
    IN  gen_add_sync(s3, use_thread_group)

gen_kernel_save_result(self, store_to_name, stride, amount, use_thread_group, load_from_name) ==
    LET from == IF load_from_name = NoneVal THEN "s_" \o store_to_name
                ELSE load_from_name
        s0 == gen_add_code_line(self, "// save down to global", FALSE)
        s1 == gen_add_code_line(s0,
                "T *d_" \o store_to_name \o "_k = &d_" \o store_to_name
                    \o "[k*" \o stride \o "];", FALSE)
        s2 == gen_add_parallel_loop(s1, "ind", amount, use_thread_group, FALSE)
        s3 == gen_add_code_line(s2,
                "d_" \o store_to_name \o "_k[ind] = " \o from \o "[ind];", FALSE)
        s4 == gen_add_end_control_flow(s3)
    IN  gen_add_sync(s4, use_thread_group)

\* one "loop, copy, close" group of gen_kernel_load_inputs_single_timing
LoadGroupSingleTiming(self, name, amount, use_thread_group) ==
    LET s1 == gen_add_parallel_loop(self, "ind", amount, use_thread_group, FALSE)
        s2 == gen_add_code_line(s1,
                "s_" \o name \o "[ind] = d_" \o name \o "[ind];", FALSE)
    IN  gen_add_end_control_flow(s2)

gen_kernel_load_inputs_single_timing(self, name, amount, use_thread_group, name2, amount2, name3, amount3) ==
    LET s0 == gen_add_code_line(self, "// load to shared mem", FALSE)
        s1 == LoadGroupSingleTiming(s0, name, amount, use_thread_group)
        s2 == IF name2 # NoneVal
              THEN LoadGroupSingleTiming(s1, name2, amount2, use_thread_group)
              ELSE s1
        s3 == IF name3 # NoneVal
              THEN LoadGroupSingleTiming(s2, name3, amount3, use_thread_group)
              ELSE s2
    IN  gen_add_sync(s3, use_thread_group)

gen_kernel_save_result_single_timing(self, store_to_name, amount, use_thread_group, load_from_name) ==
    LET from == IF load_from_name = NoneVal THEN "s_" \o store_to_name
                ELSE load_from_name
        s0 == gen_add_code_line(self, "// save down to global", FALSE)
        s1 == gen_add_parallel_loop(s0, "ind", amount, use_thread_group, FALSE)
        s2 == gen_add_code_line(s1,
                "d_" \o store_to_name \o "[ind] = " \o from \o "[ind];", FALSE)
        s3 == gen_add_end_control_flow(s2)
    IN  gen_add_sync(s3, use_thread_group)

(***************************************************************************)
(* The generation session: one action per call of the emitter.  A call is  *)
(* made only while no exception has ended the session.                     *)
(***************************************************************************)
NoCall == [op |-> "init", use_thread_group |-> FALSE, block_level |-> FALSE,
           opener |-> FALSE, closer |-> FALSE, matched |-> FALSE,
           depth0 |-> 0, len0 |-> 0, open_depth |-> 0]

SelIdle == [phase |-> "idle"]

RunIdle == [phase |-> "idle"]

EmitInit ==
    /\ code_str = <<>>
    /\ indent_level = 0
    /\ console = <<>>
    /\ exc = "none"
    /\ last = NoCall
    /\ opens = <<>>
    /\ ncalls = 0

\* The effect s of one call, with the history of the call.  kind is "open" for
\* a call that opens a block, "close" for one that closes one, "leaf" otherwise.
Call(budget, s, op, kind, use_thread_group, block_level) ==
    /\ exc = "none"
    /\ ncalls < budget
    /\ UNCHANGED <<sel, run>>
    /\ code_str' = s.code_str
    /\ indent_level' = s.indent_level
    /\ console' = s.console
    /\ exc' = s.exc
    /\ ncalls' = ncalls + 1
    /\ opens' = IF kind = "open" /\ s.exc = "none" THEN <<indent_level>> \o opens
                ELSE IF kind = "close" /\ opens # <<>> THEN Tail(opens)
                ELSE opens
    /\ last' = [op |-> op, use_thread_group |-> use_thread_group,
                block_level |-> block_level,
                opener |-> (kind = "open"), closer |-> (kind = "close"),
                matched |-> (kind = "close" /\ opens # <<>>),
                depth0 |-> indent_level, len0 |-> Len(code_str),
                open_depth |-> IF kind = "close" /\ opens # <<>>
                               THEN Head(opens) ELSE 0]

Texts == {"x += 1;"}

HeaderLines == {<<"template <typename T>", "__device__", "void f(T *s_q){">>}

EmitLine(budget) ==
    \E t \in Texts, open_block \in BOOLEAN :
        Call(budget, gen_add_code_line(Self, t, open_block), "emit_line",
             IF open_block THEN "open" ELSE "leaf", FALSE, FALSE)

EmitLines(budget) ==
    \E ls \in HeaderLines, open_block \in BOOLEAN :
        Call(budget, gen_add_code_lines(Self, ls, open_block), "emit_lines",
             IF open_block THEN "open" ELSE "leaf", FALSE, FALSE)

EndBlock(budget) ==
    Call(budget, gen_add_end_control_flow(Self), "end_block", "close", FALSE, FALSE)

EndFunction(budget) ==
    Call(budget, gen_add_end_function(Self), "end_function", "close", FALSE, FALSE)

SerialSection(budget) ==
    \E use_thread_group \in BOOLEAN :
        Call(budget, gen_add_serial_ops(Self, use_thread_group), "serial_section",
             "open", use_thread_group, FALSE)

ParallelLoop(budget) ==
    \E use_thread_group \in BOOLEAN, block_level \in BOOLEAN :
        Call(budget, gen_add_parallel_loop(Self, "ind", "N", use_thread_group, block_level),
             "parallel_loop", "open", use_thread_group, block_level)

Barrier(budget) ==
    \E use_thread_group \in BOOLEAN :
        Call(budget, gen_add_sync(Self, use_thread_group), "barrier", "leaf",
             use_thread_group, FALSE)

Load(budget) ==
    \E use_thread_group \in BOOLEAN, name2 \in {NoneVal, "qd"}, name3 \in {NoneVal, "u"} :
        Call(budget, gen_kernel_load_inputs(Self, "q", "stride_q", "N", use_thread_group,
                                    name2, "stride_qd", "N2", name3, "1", "N3"),
             "load", "leaf", use_thread_group, FALSE)

Store(budget) ==
    \E use_thread_group \in BOOLEAN, load_from_name \in {NoneVal, "s_temp"} :
        Call(budget, gen_kernel_save_result(Self, "c", "stride_c", "N", use_thread_group,
                                    load_from_name),
             "store", "leaf", use_thread_group, FALSE)

LoadSingleTiming(budget) ==
    \E use_thread_group \in BOOLEAN, name2 \in {NoneVal, "qd"}, name3 \in {NoneVal, "u"} :
        Call(budget, gen_kernel_load_inputs_single_timing(Self, "q", "N", use_thread_group,
                                                  name2, "N2", name3, "N3"),
             "load_single_timing", "leaf", use_thread_group, FALSE)

StoreSingleTiming(budget) ==
    \E use_thread_group \in BOOLEAN, load_from_name \in {NoneVal, "s_temp"} :
        Call(budget, gen_kernel_save_result_single_timing(Self, "c", "N", use_thread_group,
                                                  load_from_name),
             "store_single_timing", "leaf", use_thread_group, FALSE)

Init == EmitInit /\ sel = SelIdle /\ run = RunIdle

Next ==
    \/ EmitLine(MaxCalls)
    \/ EmitLines(MaxCalls)
    \/ EndBlock(MaxCalls)
    \/ EndFunction(MaxCalls)
    \/ SerialSection(MaxCalls)
    \/ ParallelLoop(MaxCalls)
    \/ Barrier(MaxCalls)

Spec == Init /\ [][Next]_vars

\* the staged copies, among the calls that change the depth around them
NextCopy ==
    \/ Load(MaxCopyCalls)
    \/ Store(MaxCopyCalls)
    \/ LoadSingleTiming(MaxCopyCalls)
    \/ StoreSingleTiming(MaxCopyCalls)
    \/ EmitLine(MaxCopyCalls)
    \/ EndBlock(MaxCopyCalls)
    \/ SerialSection(MaxCopyCalls)

SpecCopy == Init /\ [][NextCopy]_vars

(***************************************************************************)
(* Properties of the emitter session (Spec)                                *)
(***************************************************************************)

\* C1: a closer that matches an opener (LIFO) returns the depth to exactly the
\* depth the session had before that opener was called, whatever balanced
\* sequence of calls was made in between and whatever that depth was.
C1_DepthRoundTrip ==
    last.matched => /\ exc = "none"
                    /\ indent_level = last.open_depth

\* a nested block, opened at depth 1, has just been closed by end_function
C1_Witness ==
    /\ last.matched
    /\ last.op = "end_function"
    /\ last.open_depth = 1
    /\ indent_level = 1

\* C5: parallel_loop with block_level and use_cooperative_group both true
\* reports the error, returns normally, appends nothing and leaves the depth
\* unchanged.
C5_WarnAndSkip ==
    (last.op = "parallel_loop" /\ last.block_level /\ last.use_thread_group)
        => /\ console # <<>>
           /\ exc = "none"
           /\ Len(code_str) = last.len0
           /\ indent_level = last.depth0

\* C9: end_block or end_function called at depth <= 0 is not rejected: the
\* depth drops by one below zero, one closing-brace line without indentation
\* prefix is appended, and the earlier buffer contents are unchanged.
C9_UnmatchedClose ==
    [][(last'.closer /\ ncalls' = ncalls + 1 /\ indent_level <= 0)
        => /\ exc' = "none"
           /\ indent_level' = indent_level - 1
           /\ indent_level' < 0
           /\ code_str' = Append(code_str,
                IF last'.op = "end_block" THEN "}\n" ELSE "}\n\n")]_vars

\* a second unmatched close in a row has taken the depth from -1 to -2
C9_Witness ==
    /\ last.closer
    /\ ~last.matched
    /\ last.depth0 = -1
    /\ indent_level = -2
    /\ code_str[Len(code_str)] = "}\n"

(***************************************************************************)
(* Properties of the staged copies (SpecCopy)                              *)
(***************************************************************************)
IsCopy == last.op \in {"load", "store", "load_single_timing", "store_single_timing"}

\* the lines the last call appended
Appended == SubSeq(code_str, last.len0 + 1, Len(code_str))

Depths == (0 - MaxCopyCalls - 1) .. (MaxCopyCalls + 1)

Amounts == {"N", "N2", "N3"}

BarrierLines ==
    {Indent(d) \o "tgrp.sync();\n" : d \in Depths}
        \cup {Indent(d) \o "__syncthreads();\n" : d \in Depths}

LoopLinesOf(d, g) ==
    {Indent(d) \o LoopHeader("ind", a, g, FALSE) \o "\n" : a \in Amounts}

LoopLines ==
    {Indent(d) \o LoopHeader("ind", a, g, b) \o "\n" :
        d \in Depths, a \in Amounts, g \in BOOLEAN, b \in BOOLEAN}

IsBarrierLine(line) == line \in BarrierLines

IsLoopLine(line) == line \in LoopLines

IsLoopLineOf(line, d, g) == line \in LoopLinesOf(d, g)

\* C7: a staged copy returns at the depth it was entered at; each loop it
\* opens is a loop of the call's mode and is closed before the next line that
\* opens a loop; exactly one barrier is appended, of the call's mode, as the
\* last line, directly after the close of the last loop.
C7_CopyThenBarrier ==
    IsCopy =>
        LET seg == Appended
            n == Len(seg)
            d == last.depth0
            g == last.use_thread_group
        IN  /\ exc = "none"
            /\ indent_level = d
            /\ n >= 5
            /\ Cardinality({i \in 1..n : IsBarrierLine(seg[i])}) = 1
            /\ seg[n] = Indent(d)
                    \o (IF g THEN "tgrp.sync();" ELSE "__syncthreads();") \o "\n"
            /\ seg[n - 1] = Indent(d) \o "}\n"
            /\ \E i \in 1..n : IsLoopLine(seg[i])
            /\ \A i \in 1..n : IsLoopLine(seg[i]) =>
                    /\ IsLoopLineOf(seg[i], d, g)
                    /\ \E j \in (i + 1)..(n - 1) :
                        /\ seg[j] = Indent(d) \o "}\n"
                        /\ \A m \in (i + 1)..j : ~IsLoopLine(seg[m])

\* a group-scoped load of three buffers made inside an open block
C7_Witness ==
    /\ last.op = "load"
    /\ last.use_thread_group
    /\ last.depth0 = 1
    /\ Cardinality({i \in 1..Len(Appended) : IsLoopLine(Appended[i])}) = 3
    /\ code_str[Len(code_str)] = "    tgrp.sync();\n"

(***************************************************************************)
(* The selector.  A comparator is kept as the sequence of its characters,  *)
(* a dst_type as the result of dst_type.split("|") (<<>> for None), a      *)
(* select tuple as a record.  Python indexes from 0: At(seq, ind).         *)
(***************************************************************************)
At(seq, ind) == seq[ind + 1]

RECURSIVE Join(_, _)
Join(sep, parts) ==
    IF parts = <<>> THEN ""
    ELSE IF Len(parts) = 1 THEN parts[1]
    ELSE parts[1] \o sep \o Join(sep, Tail(parts))

Str(chars) == Join("", chars)

Contains(chars, c) == \E i \in DOMAIN chars : chars[i] = c

Replace(chars, old, new) ==
    [i \in DOMAIN chars |-> IF chars[i] = old THEN new ELSE chars[i]]

\* variant: the direction is flipped, the strictness is kept (line 197 left out)
InverseComparator_flip(comparator) ==
    IF Contains(comparator, "<") THEN Replace(comparator, "<", ">")
    ELSE Replace(comparator, ">", "<")

InverseComparator(comparator) ==
    LET flipped == IF Contains(comparator, "<") THEN Replace(comparator, "<", ">")
                   ELSE Replace(comparator, ">", "<")
    IN  IF Len(flipped) = 1 THEN Append(flipped, "=")
        ELSE IF flipped # <<"=", "=">> THEN <<flipped[1]>>
        ELSE flipped

DstCode(t) ==
    IF t.dst_type = <<>> THEN t.dst_var
    ELSE IF Len(t.dst_type) > 1
         THEN t.dst_type[1] \o t.dst_var \o ")" \o t.dst_type[2]
    ELSE t.dst_type[1] \o " " \o t.dst_var

\* one emitted comparison  loop_counter <op> <rhs>
Cond(op, rhs) == [op |-> op, rhs |-> rhs]

CondText(loop_counter, c) == loop_counter \o " " \o Str(c.op) \o " " \o c.rhs

\* variant: the last arm is guarded by its own threshold like the others
ArmGuard_all_guarded(ind, n, comparator, counts) ==
    IF ind = 0
    THEN [kw |-> "if", conds |-> <<Cond(comparator, At(counts, ind))>>]
    ELSE [kw |-> "else if", conds |-> <<Cond(comparator, At(counts, ind))>>]

\* the arm of the if / else if / else chain emitted for bucket ind
ArmGuard(ind, n, comparator, counts) ==
    IF ind = 0
    THEN [kw |-> "if", conds |-> <<Cond(comparator, At(counts, ind))>>]
    ELSE IF ind < n - 1
    THEN [kw |-> "else if", conds |-> <<Cond(comparator, At(counts, ind))>>]
    ELSE [kw |-> "else", conds |-> <<>>]

CodeStart(loop_counter, arm) ==
    IF arm.kw = "if"
    THEN "     if (" \o CondText(loop_counter, arm.conds[1]) \o "){ "
    ELSE IF arm.kw = "else if"
    THEN "else if (" \o CondText(loop_counter, arm.conds[1]) \o "){ "
    ELSE "else              { "

RECURSIVE CodeMiddle(_, _)
CodeMiddle(select_tuples, ind) ==
    IF select_tuples = <<>> THEN ""
    ELSE Head(select_tuples).dst_var \o " = "
            \o At(Head(select_tuples).select_list, ind) \o "; "
            \o CodeMiddle(Tail(select_tuples), ind)

\* variant: the last bucket is also bounded by its own threshold
Indicator_own_threshold(ind, n, comparator, counts) ==
    IF ind = 0 \/ comparator = <<"=", "=">>
    THEN <<Cond(comparator, At(counts, ind))>>
    ELSE IF ind < n - 1
    THEN <<Cond(comparator, At(counts, ind)),
           Cond(InverseComparator(comparator), At(counts, ind - 1))>>
    ELSE <<Cond(comparator, At(counts, ind)),
           Cond(InverseComparator(comparator), At(counts, ind - 1))>>

\* the comparisons whose conjunction is the indicator of bucket ind in the
\* branch-free sum
Indicator(ind, n, comparator, counts) ==
    IF ind = 0 \/ comparator = <<"=", "=">>
    THEN <<Cond(comparator, At(counts, ind))>>
    ELSE IF ind < n - 1
    THEN <<Cond(comparator, At(counts, ind)),
           Cond(InverseComparator(comparator), At(counts, ind - 1))>>
    ELSE <<Cond(InverseComparator(comparator), At(counts, ind - 1))>>

IndicatorText(loop_counter, ind, conds) ==
    (IF ind > 0 THEN " + " ELSE "") \o "("
        \o Join(" && ", [i \in DOMAIN conds |-> CondText(loop_counter, conds[i])])
        \o ")"

\* branch_code after the iterations ind, ind + 1, ..., n - 1
RECURSIVE BranchCode(_, _, _, _, _)
BranchCode(loop_counter, comparator, counts, select_list, ind) ==
    IF ind >= Len(counts) THEN ""
    ELSE IndicatorText(loop_counter, ind,
                Indicator(ind, Len(counts), comparator, counts))
            \o " * " \o At(select_list, ind)
            \o BranchCode(loop_counter, comparator, counts, select_list, ind + 1)

\* the arguments of the gen_add_code_line calls the selector makes, in order
SelectLines(loop_counter, comparator, counts, select_tuples, USE_NON_BRANCH_ALWAYS) ==
    LET n == Len(counts)
        dst_code == [i \in DOMAIN select_tuples |-> DstCode(select_tuples[i])]
    IN  IF Len(select_tuples) > 1 /\ ~USE_NON_BRANCH_ALWAYS
        THEN <<"// branch to get pointer locations", Join("; ", dst_code) \o ";">>
                \o [i \in 1..n |->
                        CodeStart(loop_counter, ArmGuard(i - 1, n, comparator, counts))
                            \o CodeMiddle(select_tuples, i - 1) \o "}"]
        ELSE <<"// non-branching pointer selector">>
                \o [i \in DOMAIN select_tuples |->
                        dst_code[i] \o " = "
                            \o BranchCode(loop_counter, comparator, counts,
                                          select_tuples[i].select_list, 0)
                            \o ";"]

gen_add_multi_threaded_select(self, loop_counter, comparator, counts, select_tuples, USE_NON_BRANCH_ALWAYS) ==
    gen_add_code_lines_loop(self,
        SelectLines(loop_counter, comparator, counts, select_tuples,
                    USE_NON_BRANCH_ALWAYS))

(***************************************************************************)
(* What the emitted selection computes when the target runs it with the    *)
(* loop counter equal to kv.                                               *)
(***************************************************************************)
MaxLit == 6 * MaxThr + 7 * (MaxDst + 1) + MaxN

Literals == [v \in 0..MaxLit |-> ToString(v)]

\* the value of a decimal literal
NumVal(lit) == CHOOSE v \in 0..MaxLit : Literals[v] = lit

CondHolds(c, kv) ==
    LET op == Str(c.op)
        rhs == NumVal(c.rhs)
    IN  CASE op = "<" -> kv < rhs
          [] op = "<=" -> kv <= rhs
          [] op = ">" -> kv > rhs
          [] op = ">=" -> kv >= rhs
          [] op = "==" -> kv = rhs

\* a parenthesised conjunction of comparisons, coerced to 0 or 1
IndicatorValue(conds, kv) ==
    IF \A i \in DOMAIN conds : CondHolds(conds[i], kv) THEN 1 ELSE 0

\* the sum of indicator * candidate over the buckets ind, ..., n - 1
RECURSIVE SumValue(_, _, _, _, _)
SumValue(comparator, counts, select_list, kv, ind) ==
    IF ind >= Len(counts) THEN 0
    ELSE IndicatorValue(Indicator(ind, Len(counts), comparator, counts), kv)
                * NumVal(At(select_list, ind))
            + SumValue(comparator, counts, select_list, kv, ind + 1)

\* the arm of the chain that runs: the first whose guard holds, the else arm
\* when it is reached, -1 when no arm runs
RECURSIVE TakenArm(_, _, _, _)
TakenArm(comparator, counts, kv, ind) ==
    IF ind >= Len(counts) THEN -1
    ELSE LET arm == ArmGuard(ind, Len(counts), comparator, counts)
         IN  IF arm.kw = "else" \/ CondHolds(arm.conds[1], kv) THEN ind
             ELSE TakenArm(comparator, counts, kv, ind + 1)

\* Values a destination may hold after the chain when no arm assigned it: the
\* declaration on line 176 has no initialiser.
Garbage == {0, 1}

\* the values the destinations can hold after the emitted code has run
Outcomes(comparator, counts, select_tuples, USE_NON_BRANCH_ALWAYS, kv) ==
    IF Len(select_tuples) > 1 /\ ~USE_NON_BRANCH_ALWAYS
    THEN LET ind == TakenArm(comparator, counts, kv, 0)
         IN  IF ind >= 0
             THEN {[i \in DOMAIN select_tuples |->
                        NumVal(At(select_tuples[i].select_list, ind))]}
             ELSE [DOMAIN select_tuples -> Garbage]
    ELSE {[i \in DOMAIN select_tuples |->
                SumValue(comparator, counts, select_tuples[i].select_list, kv, 0)]}

(***************************************************************************)
(* Selector runs: a selection specification is drawn, the selector is      *)
(* called on it without and with the branch-free form forced, and the two  *)
(* outputs are run with one value of the loop counter.                     *)
(***************************************************************************)
Comparators == {<<"<">>, <<"<", "=">>, <<">">>, <<">", "=">>, <<"=", "=">>}

ThrLits == {ToString(6 * i) : i \in 1..MaxThr}

CountsChoices == UNION {[1..n -> ThrLits] : n \in 1..MaxN}

TypeChoices == << <<"int">>, <<>>, <<"T (&", "[6]">> >>

DstName(j) == IF j = 1 THEN "n" ELSE "m" \o ToString(j)

\* destination j: len candidates, distinct across buckets and destinations
SelectTuple(j, shift, len) ==
    [dst_type |-> TypeChoices[((j - 1 + shift) % 3) + 1],
     dst_var |-> DstName(j),
     select_list |-> [i \in 1..len |-> ToString(i + 7 * (j - 1))]]

KVals == {6 * i + e : i \in 1..MaxThr, e \in {-1, 0, 1}}

SelInit ==
    \E comparator \in Comparators, counts \in CountsChoices,
       ndst \in 1..MaxDst, shift \in 0..2, surplus \in 0..1 :
        /\ surplus = 1 => shift = 0
        /\ sel = [phase |-> "spec",
                  loop_counter |-> "k",
                  comparator |-> comparator,
                  counts |-> counts,
                  select_tuples |->
                    [j \in 1..ndst |-> SelectTuple(j, shift, Len(counts) + surplus)],
                  out |-> [f \in BOOLEAN |-> <<>>],
                  k |-> 0,
                  val |-> [f \in BOOLEAN |-> <<>>]]

Select ==
    \E USE_NON_BRANCH_ALWAYS \in BOOLEAN :
        LET s == gen_add_multi_threaded_select(Self, sel.loop_counter,
                    sel.comparator, sel.counts, sel.select_tuples,
                    USE_NON_BRANCH_ALWAYS)
        IN  /\ sel.phase \in {"spec", "emitted"}
            /\ sel.out[USE_NON_BRANCH_ALWAYS] = <<>>
            /\ exc = "none"
            /\ code_str' = s.code_str
            /\ indent_level' = s.indent_level
            /\ console' = s.console
            /\ exc' = s.exc
            /\ ncalls' = ncalls + 1
            /\ last' = [NoCall EXCEPT !.op = "select", !.depth0 = indent_level,
                                      !.len0 = Len(code_str)]
            /\ sel' = [sel EXCEPT
                    !.phase = "emitted",
                    !.out[USE_NON_BRANCH_ALWAYS] =
                        SubSeq(s.code_str, Len(code_str) + 1, Len(s.code_str))]
            /\ UNCHANGED <<opens, run>>

Evaluate ==
    \E kv \in KVals :
        /\ sel.phase = "emitted"
        /\ \A f \in BOOLEAN : sel.out[f] # <<>>
        /\ \E branching \in Outcomes(sel.comparator, sel.counts, sel.select_tuples, FALSE, kv),
              branchfree \in Outcomes(sel.comparator, sel.counts, sel.select_tuples, TRUE, kv) :
                sel' = [sel EXCEPT !.phase = "evaluated", !.k = kv,
                            !.val = [f \in BOOLEAN |->
                                        IF f THEN branchfree ELSE branching]]
        /\ UNCHANGED <<emitVars, run>>

InitSel == EmitInit /\ SelInit /\ run = RunIdle

NextSel == Select \/ Evaluate

SpecSel == InitSel /\ [][NextSel]_vars

(***************************************************************************)
(* Properties of the selector (SpecSel)                                    *)
(***************************************************************************)
Relational(comparator) == comparator # <<"=", "=">>

Ascending(comparator) == comparator[1] = "<"

NumCounts == Len(sel.counts)

Threshold(ind) == NumVal(At(sel.counts, ind))

\* kv <comparator> threshold[ind], read off the selection specification
Before(kv, ind) ==
    CASE sel.comparator = <<"<">> -> kv < Threshold(ind)
      [] sel.comparator = <<"<", "=">> -> kv <= Threshold(ind)
      [] sel.comparator = <<">">> -> kv > Threshold(ind)
      [] sel.comparator = <<">", "=">> -> kv >= Threshold(ind)
      [] sel.comparator = <<"=", "=">> -> kv = Threshold(ind)

\* thresholds in the order matching the comparator; distinct keys for ==
WellOrdered ==
    \A i \in 0..(NumCounts - 1), j \in 0..(NumCounts - 1) :
        i < j => IF ~Relational(sel.comparator) THEN Threshold(i) # Threshold(j)
                 ELSE IF Ascending(sel.comparator) THEN Threshold(i) <= Threshold(j)
                 ELSE Threshold(i) >= Threshold(j)

\* every destination has exactly one candidate per threshold
Shaped ==
    \A i \in DOMAIN sel.select_tuples :
        Len(sel.select_tuples[i].select_list) = NumCounts

\* kv lies in bucket ind: the key ind for ==; for a relational comparator
\* before threshold 0 (bucket 0), between thresholds ind-1 and ind (a middle
\* bucket), not before threshold N-2 (bucket N-1, N >= 2)
InBucket(kv, ind) ==
    IF ~Relational(sel.comparator) \/ ind = 0 THEN Before(kv, ind)
    ELSE IF ind < NumCounts - 1 THEN Before(kv, ind) /\ ~Before(kv, ind - 1)
    ELSE ~Before(kv, ind - 1)

TrueIndicators ==
    {ind \in 0..(NumCounts - 1) :
        IndicatorValue(Indicator(ind, NumCounts, sel.comparator, sel.counts),
                       sel.k) = 1}

\* C3: for a relational comparator, N >= 1 thresholds in matching order and
\* any loop counter value, exactly one of the N indicators is true.
C3_ExactlyOneIndicator ==
    (/\ sel.phase = "evaluated"
     /\ Relational(sel.comparator)
     /\ WellOrdered)
    => Cardinality(TrueIndicators) = 1

\* C8: with one threshold every destination receives its lone candidate from
\* both forms, for every loop counter value (stated for the relational
\* comparators, where a single bucket is the whole ordered domain).
C8_SingleBucketUnconditional ==
    (/\ sel.phase = "evaluated"
     /\ Relational(sel.comparator)
     /\ NumCounts = 1
     /\ Shaped)
    => \A f \in BOOLEAN : \A i \in DOMAIN sel.select_tuples :
            sel.val[f][i] = NumVal(At(sel.select_tuples[i].select_list, 0))

\* the selection specification of the concrete scenario: counter k, comparator
\* <, thresholds 6 and 12, destination int n with candidates 1, 2, 3
Scenario ==
    /\ sel.phase # "spec"
    /\ sel.loop_counter = "k"
    /\ sel.comparator = <<"<">>
    /\ sel.counts = <<"6", "12">>
    /\ sel.select_tuples[1] =
            [dst_type |-> <<"int">>, dst_var |-> "n",
             select_list |-> <<"1", "2", "3">>]

\* C6 as claimed: with the one destination the scenario names, the branch-free
\* output is the three-term sum over three buckets.
C6_ThreeBuckets ==
    (Scenario /\ Len(sel.select_tuples) = 1 /\ sel.out[TRUE] # <<>>)
    => sel.out[TRUE] =
        <<"// non-branching pointer selector\n",
          "int n = (k < 6) * 1 + (k < 12 && k >= 6) * 2 + (k >= 12) * 3;\n">>

\* C6 amended: the scenario yields two buckets, one per threshold, and the
\* third candidate and the threshold 12 appear nowhere.  With the one
\* destination both calls emit the two-term branch-free sum; with a second
\* destination m2 the unforced call emits a two-arm chain (guard k < 6, then
\* the unguarded else).
C6_TwoBuckets ==
    /\ (Scenario /\ Len(sel.select_tuples) = 1)
        => \A f \in BOOLEAN :
            sel.out[f] # <<>> =>
                sel.out[f] = <<"// non-branching pointer selector\n",
                               "int n = (k < 6) * 1 + (k >= 6) * 2;\n">>
    /\ (/\ Scenario
        /\ Len(sel.select_tuples) = 2
        /\ sel.select_tuples[2] =
                [dst_type |-> <<>>, dst_var |-> "m2",
                 select_list |-> <<"8", "9", "10">>]
        /\ sel.out[FALSE] # <<>>)
        => sel.out[FALSE] = <<"// branch to get pointer locations\n",
                              "int n; m2;\n",
                              "     if (k < 6){ n = 1; m2 = 8; }\n",
                              "else              { n = 2; m2 = 9; }\n">>

\* the scenario with its one destination has been emitted by both calls
C6_Witness ==
    /\ Scenario
    /\ Len(sel.select_tuples) = 1
    /\ sel.out[FALSE] # <<>>
    /\ sel.out[TRUE] # <<>>
    /\ Len(code_str) = 4

\* the lines a call appends at the depth the selector runs were made at
EmittedFor(counts, USE_NON_BRANCH_ALWAYS) ==
    gen_add_multi_threaded_select(
        [code_str |-> <<>>, indent_level |-> indent_level,
         console |-> <<>>, exc |-> "none"],
        sel.loop_counter, sel.comparator, counts, sel.select_tuples,
        USE_NON_BRANCH_ALWAYS).code_str

\* C10: for a relational comparator and N >= 2, replacing the last threshold
\* by any other leaves the text emitted by either call unchanged.
C10_LastThresholdUnused ==
    (/\ sel.phase # "spec"
     /\ Relational(sel.comparator)
     /\ NumCounts >= 2)
    => \A f \in BOOLEAN : \A lit \in ThrLits :
            sel.out[f] # <<>> =>
                sel.out[f] = EmittedFor([sel.counts EXCEPT ![NumCounts] = lit], f)

\* both forms emitted for three thresholds and two destinations, the last
\* threshold different from the one before it
C10_Witness ==
    /\ sel.phase = "emitted"
    /\ sel.comparator = <<"<", "=">>
    /\ sel.counts = <<"6", "6", "12">>
    /\ Len(sel.select_tuples) = 2
    /\ Len(sel.out[FALSE]) = 5
    /\ Len(sel.out[TRUE]) = 3

(***************************************************************************)
(* Parallel-loop runs: one header is emitted, and the participants of an   *)
(* execution domain of dim.x by dim.y (threads of a block, threads of the  *)
(* group, or blocks of the grid) each run the emitted for-loop.            *)
(***************************************************************************)

\* the value of an emitted index expression for the participant at <<x, y>>
EvalExpr(expr, p, dim) ==
    CASE expr = "threadIdx.x + threadIdx.y*blockDim.x" -> p[1] + p[2] * dim.x
      [] expr = "blockIdx.x + blockIdx.y*gridDim.x" -> p[1] + p[2] * dim.x
      [] expr = "tgrp.thread_rank()" -> p[1] + p[2] * dim.x
      [] expr = "blockDim.x*blockDim.y" -> dim.x * dim.y
      [] expr = "gridDim.x*gridDim.y" -> dim.x * dim.y
      [] expr = "tgrp.size()" -> dim.x * dim.y
      [] expr = "blockDim.x" -> dim.x
      [] expr = "gridDim.x" -> dim.x

Participants(dim) == (0..(dim.x - 1)) \X (0..(dim.y - 1))

RunInit ==
    \E x \in 1..MaxDim, y \in 1..MaxDim, trip \in 0..MaxTrip :
        run = [phase |-> "configured", dim |-> [x |-> x, y |-> y], trip |-> trip]

\* gen_add_parallel_loop("ind", str(trip), ...) is called and, when it
\* returns, the domain is launched on the emitted header
EmitLoop ==
    \E use_thread_group \in BOOLEAN, block_level \in BOOLEAN :
        LET max_val == ToString(run.trip)
            s == gen_add_parallel_loop(Self, "ind", max_val, use_thread_group,
                                       block_level)
        IN  /\ run.phase = "configured"
            /\ exc = "none"
            /\ code_str' = s.code_str
            /\ indent_level' = s.indent_level
            /\ console' = s.console
            /\ exc' = s.exc
            /\ ncalls' = ncalls + 1
            /\ opens' = IF s.exc = "none" THEN <<indent_level>> \o opens ELSE opens
            /\ last' = [NoCall EXCEPT !.op = "parallel_loop",
                            !.use_thread_group = use_thread_group,
                            !.block_level = block_level,
                            !.opener = TRUE,
                            !.depth0 = indent_level, !.len0 = Len(code_str)]
            /\ run' = IF s.exc # "none" THEN [run EXCEPT !.phase = "failed"]
                      ELSE [phase |-> "running", dim |-> run.dim, trip |-> run.trip,
                            start |-> LoopStart(use_thread_group, block_level),
                            bound |-> max_val,
                            stride |-> LoopStride(use_thread_group, block_level),
                            pc |-> [p \in Participants(run.dim) |-> "start"],
                            ind |-> [p \in Participants(run.dim) |-> 0],
                            visits |-> [i \in 0..(run.trip + MaxDim * MaxDim) |-> <<>>]]
            /\ UNCHANGED sel

\* a participant initialises its loop variable and tests it
LoopEnter ==
    \E p \in Participants(run.dim) :
        /\ run.phase = "running"
        /\ run.pc[p] = "start"
        /\ LET v == EvalExpr(run.start, p, run.dim)
           IN  run' = [run EXCEPT !.ind[p] = v,
                        !.pc[p] = IF v < NumVal(run.bound) THEN "body" ELSE "done"]
        /\ UNCHANGED <<emitVars, sel>>

\* a participant runs the body for its index, increments and tests again
LoopIterate ==
    \E p \in Participants(run.dim) :
        /\ run.phase = "running"
        /\ run.pc[p] = "body"
        /\ LET v == run.ind[p] + EvalExpr(run.stride, p, run.dim)
           IN  run' = [run EXCEPT
                        !.visits[run.ind[p]] = Append(@, p),
                        !.ind[p] = v,
                        !.pc[p] = IF v < NumVal(run.bound) THEN "body" ELSE "done"]
        /\ UNCHANGED <<emitVars, sel>>

InitLoop == EmitInit /\ sel = SelIdle /\ RunInit

NextLoop == EmitLoop \/ LoopEnter \/ LoopIterate

SpecLoop == InitLoop /\ [][NextLoop]_vars

(***************************************************************************)
(* Properties of the parallel loop (SpecLoop)                              *)
(***************************************************************************)
AllDone ==
    /\ run.phase = "running"
    /\ \A p \in Participants(run.dim) : run.pc[p] = "done"

\* C4: in each supported mode, for every population and trip count, no index
\* is visited twice or by two participants, no index outside 0..T-1 is
\* visited, and when every participant has left the loop every index in
\* 0..T-1 has been visited.
C4_StridedCoverage ==
    run.phase = "running" =>
        /\ \A i \in DOMAIN run.visits :
            /\ Len(run.visits[i]) <= 1
            /\ run.visits[i] # <<>> => i \in 0..(run.trip - 1)
        /\ AllDone => \A i \in 0..(run.trip - 1) : Len(run.visits[i]) = 1

\* a 2 by 2 block of threads has finished a loop of five indices: the thread
\* of rank 0 came round a second time for index 4, the thread at <<1, 1>>
\* took index 3
C4_Witness ==
    /\ AllDone
    /\ run.dim = [x |-> 2, y |-> 2]
    /\ run.trip = 5
    /\ run.start = "threadIdx.x + threadIdx.y*blockDim.x"
    /\ run.visits[4] = << <<0, 0>> >>
    /\ run.visits[3] = << <<1, 1>> >>
    /\ code_str[1] = "for(int ind = threadIdx.x + threadIdx.y*blockDim.x; ind < 5; ind += blockDim.x*blockDim.y){\n"

====
